---- MODULE Spec2Model ----
(***************************************************************************)
(* FileTreeNode (src/remoteFiles/filetreenode.cpp): the tree of remote     *)
(* file nodes, the per-node state machine and the rows each node owns in   *)
(* the QStandardItemModel.                                                 *)
(*                                                                         *)
(* A world value w carries the heap of FileTreeNode objects while one      *)
(* handler runs: w.node (object id -> fields), w.crashed (the handler hit  *)
(* undefined behaviour whose outcome is an abort) and w.ub (how the build  *)
(* resolves QList::first() on an empty list for this handler).             *)
(***************************************************************************)
EXTENDS Integers, Sequences, FiniteSets, TLC

\* ---------------------------------------------------------------- bounds
MaxNodes == 4          \* FileTreeNode objects that exist at one time
MaxEntries == 2        \* entries of a listing reply other than "."
MaxOps == 5            \* handlers run in one behaviour

NULL == 0
NodeIds == 1 .. MaxNodes
RootNode == 1
rootFolderName == "r"
Names == {"a", "b"}
FileTypes == {"DIR", "FILE", "INVALID"}
RequestStates == {"GOOD", "FILE_NOT_FOUND", "FAIL"}
UBOutcomes == {"crash", "invalid"}

VARIABLES heap, crashed, lastOp, opCount
vars == <<heap, crashed, lastOp, opCount>>

\* ------------------------------------------------------- sequence helpers
Last(s) == s[Len(s)]
Front(s) == SubSeq(s, 1, Len(s) - 1)
Range(s) == {s[i] : i \in 1 .. Len(s)}
RemoveAll(s, x) == SelectSeq(s, LAMBDA y : y # x)

\* ------------------------------------------------------------ FileMetaData
\* A path is the sequence of its names (FileMetaData::getPathNameList).
getFileName(path) == IF path = <<>> THEN "" ELSE Last(path)
getContainingPath(path) == IF path = <<>> THEN <<>> ELSE Front(path)

\* ------------------------------------------------------------- the object
\* Fields of a FileTreeNode before its constructor body runs: the member
\* initialisers of the class (null tasks and buffer, nodeVisible false, state
\* INIT), as the null tests and the root constructor's nodeVisible = true imply.
\* deleteLater counts the deferred deletions asked for; alive is whether the
\* object exists.
NewNodeFields ==
    [alive |-> FALSE, myParent |-> NULL, fullPath |-> <<>>, fileType |-> "INVALID",
     nodeVisible |-> FALSE, lsTask |-> NULL, bufferTask |-> NULL,
     fileDataBuffer |-> FALSE, folderContentsKnown |-> FALSE, myState |-> "INIT",
     childList |-> <<>>, modelItemList |-> "none",
     decendantPlaceholderItem |-> "none", deleteLater |-> 0]

Set(w, n, f, v) == IF w.crashed THEN w ELSE [w EXCEPT !.node[n][f] = v]
Crash(w) == [w EXCEPT !.crashed = TRUE]

isRootNode(w, n) == w.node[n].myParent = NULL
haveLStask(w, n) == w.node[n].lsTask # NULL
haveBuffTask(w, n) == w.node[n].bufferTask # NULL

\* Variant of isChildOfLoop: the root test comes before the comparison.
RECURSIVE isChildOfLoop_RootFirst(_, _, _)
isChildOfLoop_RootFirst(w, nodeToCheck, possibleParent) ==
    IF nodeToCheck = NULL THEN FALSE
    ELSE IF isRootNode(w, nodeToCheck) THEN FALSE
    ELSE IF nodeToCheck = possibleParent THEN TRUE
    ELSE isChildOfLoop_RootFirst(w, w.node[nodeToCheck].myParent, possibleParent)

\* isChildOf: the loop of the source, one iteration per unfolding.
RECURSIVE isChildOfLoop(_, _, _)
isChildOfLoop(w, nodeToCheck, possibleParent) ==
    IF nodeToCheck = NULL THEN FALSE
    ELSE IF nodeToCheck = possibleParent THEN TRUE
    ELSE IF isRootNode(w, nodeToCheck) THEN FALSE
    ELSE isChildOfLoop(w, w.node[nodeToCheck].myParent, possibleParent)

isChildOf(w, n, possibleParent) ==
    IF possibleParent = NULL THEN FALSE ELSE isChildOfLoop(w, n, possibleParent)

\* ------------------------------------------------------------- model rows
\* modelItemList: "none" (empty list), "valid" (the node's row is in the item
\* model) or "invalid" (the list still holds persistent indexes, but the row
\* went away with an ancestor's row).  decendantPlaceholderItem: "none" (an
\* invalid index) or the text of the placeholder row.

\* QStandardItemModel::removeRow of n's row: the rows below it go with it.
RemoveRowOf(w, n) ==
    [w EXCEPT !.node = [m \in NodeIds |->
        IF m # n /\ w.node[m].alive /\ isChildOf(w, m, n)
        THEN [w.node[m] EXCEPT
                !.modelItemList = IF @ = "valid" THEN "invalid" ELSE @,
                !.decendantPlaceholderItem = "none"]
        ELSE w.node[m]]]

\* Variant of purgeModelItems: the row is removed, the index list is kept.
purgeModelItems_KeepsList(w, n) ==
    IF w.crashed \/ w.node[n].modelItemList = "none" THEN w
    ELSE IF w.node[n].modelItemList = "valid" THEN RemoveRowOf(w, n) ELSE w

purgeModelItems(w, n) ==
    IF w.crashed \/ w.node[n].modelItemList = "none" THEN w
    ELSE LET w1 == IF w.node[n].modelItemList = "valid" THEN RemoveRowOf(w, n) ELSE w
         IN  [w1 EXCEPT !.node[n].modelItemList = "none",
                        !.node[n].decendantPlaceholderItem = "none"]

AnyChildVisible(w, n) ==
    \E i \in 1 .. Len(w.node[n].childList) : w.node[w.node[n].childList[i]].nodeVisible

\* Second half of updateModelItems: the placeholder row.
updatePlaceholder(w, n, folderContentsLoaded) ==
    LET w1 == Set(w, n, "decendantPlaceholderItem", "none")
    IN  IF w1.node[n].fileType # "DIR" THEN w1
        ELSE IF AnyChildVisible(w1, n) THEN w1
        ELSE Set(w1, n, "decendantPlaceholderItem",
                 IF folderContentsLoaded THEN "Empty" ELSE "Loading")

GiveUpRow(w, n) ==
    [w EXCEPT !.node[n].decendantPlaceholderItem = "none",
              !.node[n].modelItemList = "none"]

updateModelItems(w, n, folderContentsLoaded) ==
    IF w.crashed THEN w
    ELSE IF w.node[n].modelItemList = "none"
    THEN IF w.node[n].myParent = NULL
         THEN updatePlaceholder(Set(w, n, "modelItemList", "valid"), n, folderContentsLoaded)
         ELSE LET parentList == w.node[w.node[n].myParent].modelItemList
              IN  IF parentList = "none"
                  \* first() of an empty QList: undefined behaviour
                  THEN IF w.ub = "crash" THEN Crash(w) ELSE GiveUpRow(w, n)
                  ELSE IF parentList = "invalid" THEN GiveUpRow(w, n)
                  ELSE updatePlaceholder(Set(w, n, "modelItemList", "valid"),
                                         n, folderContentsLoaded)
    ELSE IF w.node[n].modelItemList = "invalid"
    \* itemFromIndex of an invalid index is null, and is dereferenced
    THEN Crash(w)
    ELSE updatePlaceholder(w, n, folderContentsLoaded)

\* Variant of recomputeModelItems: FOLDER_CONTENTS_LOADED is handled with the
\* states above it, as a folder whose contents are not loaded.
recomputeModelItems_NeverLoaded(w, n) ==
    LET s == w.node[n].myState
    IN  IF s \in {"DELETING", "ERROR", "NON_EXTANT"} THEN purgeModelItems(w, n)
        ELSE IF s \in {"FILE_BUFF_LOADED", "FILE_BUFF_LOADING", "FILE_BUFF_RELOADING",
                       "FILE_KNOWN", "FOLDER_CONTENTS_LOADING",
                       "FOLDER_CONTENTS_RELOADING", "FOLDER_KNOWN_CONTENTS_NOT",
                       "FOLDER_CONTENTS_LOADED"}
        THEN updateModelItems(w, n, FALSE)
        ELSE w

recomputeModelItems(w, n) ==
    LET s == w.node[n].myState
    IN  IF s \in {"DELETING", "ERROR", "NON_EXTANT"} THEN purgeModelItems(w, n)
        ELSE IF s \in {"FILE_BUFF_LOADED", "FILE_BUFF_LOADING", "FILE_BUFF_RELOADING",
                       "FILE_KNOWN", "FOLDER_CONTENTS_LOADING",
                       "FOLDER_CONTENTS_RELOADING", "FOLDER_KNOWN_CONTENTS_NOT"}
        THEN updateModelItems(w, n, FALSE)
        ELSE IF s = "FOLDER_CONTENTS_LOADED" THEN updateModelItems(w, n, TRUE)
        ELSE w

\* ---------------------------------------------------------- state machine
\* Variant of changeNodeState: deleteLater is asked for before the early returns.
changeNodeState_EagerDelete(w, n, newState) ==
    IF w.crashed THEN w
    ELSE LET w0 == IF newState = "DELETING"
                   THEN Set(w, n, "deleteLater", w.node[n].deleteLater + 1)
                   ELSE w
         IN  IF w0.node[n].myState = "DELETING" THEN w0
             ELSE IF newState = w0.node[n].myState THEN w0
             ELSE LET w1 == Set(w0, n, "myState", newState)
                      w3 == recomputeModelItems(w1, n)
                  IN  IF ~isRootNode(w3, n)
                      THEN recomputeModelItems(w3, w3.node[n].myParent)
                      ELSE w3

changeNodeState(w, n, newState) ==
    IF w.crashed THEN w
    ELSE IF w.node[n].myState = "DELETING" THEN w
    ELSE IF newState = w.node[n].myState THEN w
    ELSE LET w1 == Set(w, n, "myState", newState)
             w2 == IF newState = "DELETING"
                   THEN Set(w1, n, "deleteLater", w1.node[n].deleteLater + 1)
                   ELSE w1
             w3 == recomputeModelItems(w2, n)
         IN  IF ~isRootNode(w3, n) THEN recomputeModelItems(w3, w3.node[n].myParent)
             ELSE w3

\* Variant of NextNodeState: the test of childList is the wrong way round.
NextNodeState_ChildTestInverted(w, n) ==
    LET d == w.node[n]
    IN  IF d.fileType = "DIR"
        THEN IF ~d.nodeVisible
             THEN IF haveLStask(w, n) THEN "FOLDER_SPECULATE_LOADING"
                  ELSE "FOLDER_SPECULATE_IDLE"
             ELSE IF haveLStask(w, n)
             THEN IF d.childList = <<>> THEN "FOLDER_CONTENTS_RELOADING"
                  ELSE "FOLDER_CONTENTS_LOADING"
             ELSE IF ~d.folderContentsKnown THEN "FOLDER_KNOWN_CONTENTS_NOT"
                  ELSE "FOLDER_CONTENTS_LOADED"
        ELSE IF d.fileType = "FILE"
        THEN IF ~d.nodeVisible
             THEN IF haveBuffTask(w, n) THEN "FILE_SPECULATE_LOADING"
                  ELSE "FILE_SPECULATE_IDLE"
             ELSE IF haveBuffTask(w, n)
             THEN IF d.fileDataBuffer THEN "FILE_BUFF_RELOADING"
                  ELSE "FILE_BUFF_LOADING"
             ELSE IF ~d.fileDataBuffer THEN "FILE_KNOWN"
                  ELSE "FILE_BUFF_LOADED"
        ELSE "ERROR"

\* The state recomputeNodeState asks changeNodeState for.
NextNodeState(w, n) ==
    LET d == w.node[n]
    IN  IF d.fileType = "DIR"
        THEN IF ~d.nodeVisible
             THEN IF haveLStask(w, n) THEN "FOLDER_SPECULATE_LOADING"
                  ELSE "FOLDER_SPECULATE_IDLE"
             ELSE IF haveLStask(w, n)
             THEN IF d.childList # <<>> THEN "FOLDER_CONTENTS_RELOADING"
                  ELSE "FOLDER_CONTENTS_LOADING"
             ELSE IF ~d.folderContentsKnown THEN "FOLDER_KNOWN_CONTENTS_NOT"
                  ELSE "FOLDER_CONTENTS_LOADED"
        ELSE IF d.fileType = "FILE"
        THEN IF ~d.nodeVisible
             THEN IF haveBuffTask(w, n) THEN "FILE_SPECULATE_LOADING"
                  ELSE "FILE_SPECULATE_IDLE"
             ELSE IF haveBuffTask(w, n)
             THEN IF d.fileDataBuffer THEN "FILE_BUFF_RELOADING"
                  ELSE "FILE_BUFF_LOADING"
             ELSE IF ~d.fileDataBuffer THEN "FILE_KNOWN"
                  ELSE "FILE_BUFF_LOADED"
        ELSE "ERROR"

recomputeNodeState(w, n) ==
    IF w.crashed THEN w
    ELSE IF w.node[n].myState = "DELETING" THEN w
    ELSE changeNodeState(w, n, NextNodeState(w, n))

RECURSIVE setNodeVisible(_, _)
setNodeVisible(w, n) ==
    IF w.crashed THEN w
    ELSE IF w.node[n].nodeVisible THEN w
    ELSE LET w1 == Set(w, n, "nodeVisible", TRUE)
             searchNode == w1.node[n].myParent
             w2 == IF searchNode # NULL THEN setNodeVisible(w1, searchNode) ELSE w1
         IN  recomputeNodeState(w2, n)

\* ------------------------------------------------- construction, destruction
FreeIds(w) == {i \in NodeIds : ~w.node[i].alive}
NewId(w) == CHOOSE i \in FreeIds(w) : \A j \in FreeIds(w) : i <= j

\* FileTreeNode(FileMetaData contents, FileTreeNode * parent)
NewFileTreeNode(w, contents, parent) ==
    IF w.crashed THEN w
    ELSE LET id == NewId(w)
             w1 == [w EXCEPT
                      !.node[id] = [NewNodeFields EXCEPT
                                      !.alive = TRUE, !.myParent = parent,
                                      !.fullPath = contents.path,
                                      !.fileType = contents.type],
                      !.node[parent].childList = Append(@, id)]
         IN  recomputeNodeState(w1, id)

\* FileTreeNode(QString rootFolderName, FileOperator *, QObject *)
NewRootNode ==
    LET w0 == [node |-> [i \in NodeIds |-> NewNodeFields], crashed |-> FALSE,
               ub |-> "crash"]
        w1 == [w0 EXCEPT
                 !.node[RootNode] = [NewNodeFields EXCEPT
                                       !.alive = TRUE,
                                       !.fullPath = <<rootFolderName>>,
                                       !.fileType = "DIR",
                                       !.nodeVisible = TRUE]]
    IN  recomputeNodeState(w1, RootNode)

\* ~FileTreeNode, followed by ~QObject, which deletes the QObject children the
\* node still has: the nodes taken out of childList that wait for deleteLater.
RECURSIVE Destructor(_, _)
RECURSIVE DestructorAll(_, _)
Destructor(w, n) ==
    IF w.node[n].childList # <<>>
    THEN LET toDelete == Last(w.node[n].childList)
             w1 == [w EXCEPT !.node[n].childList = Front(@)]
         IN  Destructor(Destructor(w1, toDelete), n)
    ELSE LET w1 == purgeModelItems(w, n)
             w2 == [w1 EXCEPT !.node[n].fileDataBuffer = FALSE]
             p == w2.node[n].myParent
             w3 == IF p # NULL
                   THEN [w2 EXCEPT !.node[p].childList = RemoveAll(@, n)]
                   ELSE w2
             w4 == DestructorAll(w3, {m \in NodeIds : w3.node[m].alive
                                                     /\ w3.node[m].myParent = n})
         IN  [w4 EXCEPT !.node[n] = NewNodeFields]

DestructorAll(w, S) ==
    IF S = {} THEN w
    ELSE LET m == CHOOSE x \in S : TRUE
         IN  DestructorAll(Destructor(w, m), S \ {m})

\* ------------------------------------------------------------ public setters
setFileBuffer(w, n, newFileBuffer) ==
    LET w1 == Set(w, n, "fileDataBuffer", newFileBuffer # "null")
    IN  recomputeNodeState(setNodeVisible(w1, n), n)

\* Variant of setLStask: the file type is not looked at.
setLStask_AnyType(w, n, newTask) ==
    IF newTask = NULL THEN w
    ELSE recomputeNodeState(Set(w, n, "lsTask", newTask), n)

setLStask(w, n, newTask) ==
    IF newTask = NULL THEN w
    ELSE IF w.node[n].fileType # "DIR" THEN w
    ELSE recomputeNodeState(Set(w, n, "lsTask", newTask), n)

setBuffTask(w, n, newTask) ==
    IF newTask = NULL THEN w
    ELSE IF w.node[n].fileType # "FILE" THEN w
    ELSE recomputeNodeState(Set(w, n, "bufferTask", newTask), n)

RECURSIVE clearAllChildren(_, _)
clearAllChildren(w, n) ==
    IF w.crashed \/ w.node[n].childList = <<>> THEN w
    ELSE LET aChild == Last(w.node[n].childList)
             w1 == [w EXCEPT !.node[n].childList = Front(@)]
         IN  clearAllChildren(changeNodeState(w1, aChild, "DELETING"), n)

deleteFolderContentsData(w, n) ==
    clearAllChildren(Set(w, n, "folderContentsKnown", FALSE), n)

\* ------------------------------------------------------------- path search
RECURSIVE FirstChildNamed(_, _, _, _)
FirstChildNamed(w, n, filename, i) ==
    IF i > Len(w.node[n].childList) THEN NULL
    ELSE LET c == w.node[n].childList[i]
         IN  IF getFileName(w.node[c].fullPath) = filename
                /\ w.node[c].fileType # "INVALID"
             THEN c
             ELSE FirstChildNamed(w, n, filename, i + 1)

getChildNodeWithName(w, n, filename) == FirstChildNamed(w, n, filename, 1)

RECURSIVE pathSearchHelperFromAnyNode(_, _, _, _)
pathSearchHelperFromAnyNode(w, searchNode, filePathParts, stopEarly) ==
    IF filePathParts = <<>> THEN searchNode
    ELSE LET nextNode == getChildNodeWithName(w, searchNode, Head(filePathParts))
         IN  IF nextNode = NULL
             THEN IF stopEarly THEN searchNode ELSE NULL
             ELSE pathSearchHelperFromAnyNode(w, nextNode, Tail(filePathParts), stopEarly)

pathSearchHelper(w, n, filename, stopEarly) ==
    IF ~isRootNode(w, n) THEN NULL
    ELSE IF filename = <<>> THEN NULL
    ELSE IF Head(filename) # getFileName(w.node[n].fullPath) THEN NULL
    ELSE pathSearchHelperFromAnyNode(w, n, Tail(filename), stopEarly)

getNodeWithName(w, n, filename) == pathSearchHelper(w, n, filename, FALSE)

\* ------------------------------------------------------------ listing reply
\* An entry of a listing is [path, type]; the "." entry of folder f is f/. .
RECURSIVE getControlAddress(_)
getControlAddress(newDataList) ==
    IF newDataList = <<>> THEN <<>>
    ELSE IF getFileName(Head(newDataList).path) = "."
    THEN getContainingPath(Head(newDataList).path)
    ELSE getControlAddress(Tail(newDataList))

RECURSIVE RootOf(_, _)
RootOf(w, n) == IF w.node[n].myParent = NULL THEN n ELSE RootOf(w, w.node[n].myParent)

\* Variant of verifyControlNode: any node at the control address will do.
verifyControlNode_AnyNode(w, n, newDataList) ==
    LET controllerAddress == getControlAddress(newDataList)
    IN  IF controllerAddress = <<>> THEN FALSE
        ELSE getNodeWithName(w, RootOf(w, n), controllerAddress) # NULL

verifyControlNode(w, n, newDataList) ==
    LET controllerAddress == getControlAddress(newDataList)
    IN  IF controllerAddress = <<>> THEN FALSE
        ELSE getNodeWithName(w, RootOf(w, n), controllerAddress) = n

SameFile(w, c, entry) ==
    /\ w.node[c].fullPath = entry.path
    /\ w.node[c].fileType = entry.type

insertFile(w, n, newData) ==
    IF w.crashed THEN w
    ELSE IF getFileName(newData.path) = "." THEN w
    ELSE IF \E i \in 1 .. Len(w.node[n].childList) :
                SameFile(w, w.node[n].childList[i], newData)
    THEN w
    ELSE NewFileTreeNode(w, newData, n)

\* Variant of MatchFound: the file type is left out of the comparison.
MatchFound_PathOnly(w, aNode, newChildList) ==
    \E i \in 1 .. Len(newChildList) :
        /\ getFileName(newChildList[i].path) # "."
        /\ w.node[aNode].fullPath = newChildList[i].path

MatchFound(w, aNode, newChildList) ==
    \E i \in 1 .. Len(newChildList) :
        /\ getFileName(newChildList[i].path) # "."
        /\ SameFile(w, aNode, newChildList[i])

Reverse(s) == [i \in 1 .. Len(s) |-> s[Len(s) + 1 - i]]

RECURSIVE purgeLoop(_, _, _, _)
purgeLoop(w, n, newChildList, altList) ==
    IF w.crashed THEN w
    ELSE IF w.node[n].childList = <<>>
    THEN [w EXCEPT !.node[n].childList = Reverse(altList)]
    ELSE LET aNode == Last(w.node[n].childList)
             w1 == [w EXCEPT !.node[n].childList = Front(@)]
         IN  IF MatchFound(w1, aNode, newChildList)
             THEN purgeLoop(w1, n, newChildList, Append(altList, aNode))
             ELSE purgeLoop(changeNodeState(w1, aNode, "DELETING"), n,
                            newChildList, altList)

purgeUnmatchedChildren(w, n, newChildList) ==
    IF w.node[n].childList = <<>> THEN w
    ELSE purgeLoop(w, n, newChildList, <<>>)

RECURSIVE insertAll(_, _, _)
insertAll(w, n, entries) ==
    IF entries = <<>> THEN w
    ELSE insertAll(insertFile(w, n, Head(entries)), n, Tail(entries))

RECURSIVE showChildren(_, _, _)
showChildren(w, n, i) ==
    IF w.crashed \/ i > Len(w.node[n].childList) THEN w
    ELSE showChildren(setNodeVisible(w, w.node[n].childList[i]), n, i + 1)

updateFileNodeData(w, n, newDataList) ==
    LET w1 == Set(w, n, "folderContentsKnown", TRUE)
    IN  IF Len(newDataList) <= 1
        THEN recomputeNodeState(clearAllChildren(w1, n), n)
        ELSE LET w2 == purgeUnmatchedChildren(w1, n, newDataList)
                 w3 == insertAll(w2, n, newDataList)
                 w4 == showChildren(w3, n, 1)
             IN  recomputeNodeState(w4, n)

deliverLSdata(w, n, taskState, dataList) ==
    LET w1 == Set(w, n, "lsTask", NULL)
    IN  IF taskState = "GOOD"
        THEN IF ~verifyControlNode(w1, n, dataList)
             THEN recomputeNodeState(w1, n)
             ELSE updateFileNodeData(w1, n, dataList)
        ELSE IF taskState = "FILE_NOT_FOUND"
        THEN changeNodeState(w1, n, "DELETING")
        ELSE recomputeNodeState(w1, n)

deliverBuffData(w, n, taskState, bufferData) ==
    LET w1 == Set(w, n, "bufferTask", NULL)
    IN  IF taskState = "GOOD"
        THEN setFileBuffer(w1, n, bufferData)
        ELSE IF taskState = "FILE_NOT_FOUND"
        THEN changeNodeState(w1, n, "DELETING")
        ELSE recomputeNodeState(w1, n)

\* ------------------------------------------------------------------ system
World(ub) == [node |-> heap, crashed |-> FALSE, ub |-> ub]

Op(name, n, arg, dataList) ==
    [op |-> name, node |-> n, arg |-> arg, dataList |-> dataList]

Commit(w, op) ==
    /\ heap' = w.node
    /\ crashed' = w.crashed
    /\ lastOp' = op
    /\ opCount' = opCount + 1

Ready == ~crashed /\ opCount < MaxOps

\* The two resolutions of the undefined read differ only in a handler that
\* reaches it: the second one is a step of its own only where the first aborts.
Resolves(ub, w) == ub = "crash" \/ w.crashed

Init ==
    /\ heap = NewRootNode.node
    /\ crashed = FALSE
    /\ lastOp = Op("init", RootNode, "", <<>>)
    /\ opCount = 0

\* The file operator constructs a node below a folder that has no child of
\* that name yet (it looks the name up with getChildNodeWithName first).
ConstructChild(p, name, type, ub) ==
    /\ Ready
    /\ heap[p].alive
    /\ heap[p].fileType = "DIR"
    /\ FreeIds(World(ub)) # {}
    /\ getChildNodeWithName(World(ub), p, name) = NULL
    /\ Resolves(ub, NewFileTreeNode(World("crash"), [path |-> Append(heap[p].fullPath, name),
                                                  type |-> type], p))
    /\ Commit(NewFileTreeNode(World(ub), [path |-> Append(heap[p].fullPath, name),
                                           type |-> type], p),
              Op("construct", NewId(World(ub)), "", <<>>))

SetLStask(n, newTask, ub) ==
    /\ Ready
    /\ heap[n].alive
    /\ Resolves(ub, setLStask(World("crash"), n, newTask))
    /\ Commit(setLStask(World(ub), n, newTask),
              Op("setLStask", n,
                 IF newTask = NULL \/ heap[n].fileType # "DIR" THEN "rejected"
                 ELSE "accepted", <<>>))

SetBuffTask(n, newTask, ub) ==
    /\ Ready
    /\ heap[n].alive
    /\ Resolves(ub, setBuffTask(World("crash"), n, newTask))
    /\ Commit(setBuffTask(World(ub), n, newTask),
              Op("setBuffTask", n,
                 IF newTask = NULL \/ heap[n].fileType # "FILE" THEN "rejected"
                 ELSE "accepted", <<>>))

SetFileBuffer(n, newFileBuffer, ub) ==
    /\ Ready
    /\ heap[n].alive
    /\ Resolves(ub, setFileBuffer(World("crash"), n, newFileBuffer))
    /\ Commit(setFileBuffer(World(ub), n, newFileBuffer),
              Op("setFileBuffer", n, newFileBuffer, <<>>))

SetNodeVisible(n, ub) ==
    /\ Ready
    /\ heap[n].alive
    /\ Resolves(ub, setNodeVisible(World("crash"), n))
    /\ Commit(setNodeVisible(World(ub), n),
              Op("setNodeVisible", n,
                 IF heap[n].nodeVisible THEN "already" ELSE "shown", <<>>))

DeleteFolderContentsData(n, ub) ==
    /\ Ready
    /\ heap[n].alive
    /\ Resolves(ub, deleteFolderContentsData(World("crash"), n))
    /\ Commit(deleteFolderContentsData(World(ub), n),
              Op("deleteFolderContentsData", n, "", <<>>))

\* Replies the remote interface can send for the ls task of node n.
DotEntry(path) == [path |-> Append(path, "."), type |-> "DIR"]
ControlPaths(n) == {heap[n].fullPath, <<rootFolderName>>, <<rootFolderName, "zz">>}
ListedFiles == (Names \X {"DIR", "FILE"}) \cup {<<"a", "INVALID">>}
ChildEntries(n) ==
    {[path |-> Append(heap[n].fullPath, f[1]), type |-> f[2]] : f \in ListedFiles}
SeqsUpTo(S, k) == UNION {[1 .. len -> S] : len \in 0 .. k}
\* A reply for this folder lists up to MaxEntries files; a reply whose "." entry
\* is missing or names another folder lists at most one.
Listings(n) ==
    {<<DotEntry(heap[n].fullPath)>> \o kids :
        kids \in SeqsUpTo(ChildEntries(n), MaxEntries)}
    \cup
    {dot \o kids : dot \in {<<>>} \cup {<<DotEntry(cp)>> : cp \in ControlPaths(n)},
                   kids \in SeqsUpTo(ChildEntries(n), 1)}

\* Only a GOOD reply carries data.
Replies(n, taskState) == IF taskState = "GOOD" THEN Listings(n) ELSE {<<>>}
Buffers(taskState) == IF taskState = "GOOD" THEN {"null", "data"} ELSE {"null"}

NewNodesNeeded(w, n, dataList) ==
    Cardinality({e \in Range(dataList) :
                    /\ getFileName(e.path) # "."
                    /\ ~\E i \in 1 .. Len(w.node[n].childList) :
                           SameFile(w, w.node[n].childList[i], e)})

ListingKind(w, n, taskState, dataList) ==
    IF taskState # "GOOD" THEN taskState
    ELSE IF ~verifyControlNode(w, n, dataList) THEN "GOOD_mismatch"
    ELSE IF Len(dataList) <= 1 THEN "GOOD_empty"
    ELSE "GOOD_listed"

\* The slot connected to the pending ls task's haveLSReply signal.
DeliverLSdata(n, taskState, ub) ==
    /\ Ready
    /\ heap[n].alive
    /\ heap[n].lsTask # NULL
    /\ \E dataList \in Replies(n, taskState) :
          /\ NewNodesNeeded(World(ub), n, dataList) <= Cardinality(FreeIds(World(ub)))
          /\ Resolves(ub, deliverLSdata(World("crash"), n, taskState, dataList))
          /\ Commit(deliverLSdata(World(ub), n, taskState, dataList),
                    Op("deliverLSdata", n,
                       ListingKind(Set(World(ub), n, "lsTask", NULL), n, taskState,
                                   dataList),
                       dataList))

\* The slot connected to the pending buffer task's haveBufferDownloadReply signal.
DeliverBuffData(n, taskState, ub) ==
    /\ Ready
    /\ heap[n].alive
    /\ heap[n].bufferTask # NULL
    /\ \E bufferData \in Buffers(taskState) :
          /\ Resolves(ub, deliverBuffData(World("crash"), n, taskState, bufferData))
          /\ Commit(deliverBuffData(World(ub), n, taskState, bufferData),
                    Op("deliverBuffData", n, taskState, <<>>))

\* The event loop runs the deletion deleteLater asked for; other handlers may
\* run on the node before it does.
DeferredDelete(n) ==
    /\ Ready
    /\ heap[n].alive
    /\ heap[n].deleteLater > 0
    /\ Commit(Destructor(World("crash"), n), Op("destroy", n, "", <<>>))

Next ==
    \/ \E p \in NodeIds, name \in Names, type \in {"DIR", "FILE"}, ub \in UBOutcomes :
          ConstructChild(p, name, type, ub)
    \/ \E n \in NodeIds, newTask \in {NULL, 1}, ub \in UBOutcomes :
          SetLStask(n, newTask, ub)
    \/ \E n \in NodeIds, newTask \in {NULL, 1}, ub \in UBOutcomes :
          SetBuffTask(n, newTask, ub)
    \/ \E n \in NodeIds, newFileBuffer \in {"null", "data"}, ub \in UBOutcomes :
          SetFileBuffer(n, newFileBuffer, ub)
    \/ \E n \in NodeIds, ub \in UBOutcomes : SetNodeVisible(n, ub)
    \/ \E n \in NodeIds, ub \in UBOutcomes : DeleteFolderContentsData(n, ub)
    \/ \E n \in NodeIds, taskState \in RequestStates, ub \in UBOutcomes :
          DeliverLSdata(n, taskState, ub)
    \/ \E n \in NodeIds, taskState \in RequestStates, ub \in UBOutcomes :
          DeliverBuffData(n, taskState, ub)
    \/ \E n \in NodeIds : DeferredDelete(n)

Spec == Init /\ [][Next]_vars

\* ============================================================== properties
Now == World("crash")
Then == [node |-> heap', crashed |-> crashed', ub |-> "crash"]
AliveNodes == {n \in NodeIds : heap[n].alive}
Children(h, n) == Range(h[n].childList)

\* C1: recomputeNodeState on a node that is not DELETING leaves the node in
\* the state this table gives for (file type, nodeVisible, pending ls/buffer
\* task, childList empty, folderContentsKnown, buffer held); any other file
\* type gives ERROR.
StateTable ==
    {<<"DIR", FALSE, TRUE>> :> "FOLDER_SPECULATE_LOADING",
     <<"DIR", FALSE, FALSE>> :> "FOLDER_SPECULATE_IDLE",
     <<"DIR", TRUE, TRUE, TRUE>> :> "FOLDER_CONTENTS_RELOADING",
     <<"DIR", TRUE, TRUE, FALSE>> :> "FOLDER_CONTENTS_LOADING",
     <<"DIR", TRUE, FALSE, TRUE>> :> "FOLDER_CONTENTS_LOADED",
     <<"DIR", TRUE, FALSE, FALSE>> :> "FOLDER_KNOWN_CONTENTS_NOT",
     <<"FILE", FALSE, TRUE>> :> "FILE_SPECULATE_LOADING",
     <<"FILE", FALSE, FALSE>> :> "FILE_SPECULATE_IDLE",
     <<"FILE", TRUE, TRUE, TRUE>> :> "FILE_BUFF_RELOADING",
     <<"FILE", TRUE, TRUE, FALSE>> :> "FILE_BUFF_LOADING",
     <<"FILE", TRUE, FALSE, TRUE>> :> "FILE_BUFF_LOADED",
     <<"FILE", TRUE, FALSE, FALSE>> :> "FILE_KNOWN"}

\* The key of a node in the table: the task asked about is the ls task for a
\* folder and the buffer task for a file; the last component is "has children"
\* (folder with task), "contents known" (folder without), "buffer held" (file).
TableKey(d) ==
    LET task == IF d.fileType = "DIR" THEN d.lsTask # NULL ELSE d.bufferTask # NULL
        last == IF d.fileType = "DIR"
                THEN IF task THEN d.childList # <<>> ELSE d.folderContentsKnown
                ELSE d.fileDataBuffer
    IN  IF d.nodeVisible THEN <<d.fileType, TRUE, task, last>>
        ELSE <<d.fileType, FALSE, task>>

TableState(d) ==
    IF d.fileType \notin {"DIR", "FILE"} THEN "ERROR"
    ELSE LET hit == {row \in StateTable : DOMAIN row = {TableKey(d)}}
         IN  (CHOOSE row \in hit : TRUE)[TableKey(d)]

\* The handlers whose last call is recomputeNodeState on the node they ran on.
EndsWithRecompute ==
    \/ lastOp.op \in {"construct", "setFileBuffer"}
    \/ lastOp.op \in {"setLStask", "setBuffTask"} /\ lastOp.arg = "accepted"
    \/ lastOp.op = "setNodeVisible" /\ lastOp.arg = "shown"
    \/ lastOp.op \in {"deliverLSdata", "deliverBuffData"} /\ lastOp.arg # "FILE_NOT_FOUND"

C1_RecomputeFollowsTable ==
    (~crashed /\ EndsWithRecompute /\ heap[lastOp.node].myState # "DELETING")
        => heap[lastOp.node].myState = TableState(heap[lastOp.node])

C1_Witness ==
    /\ ~crashed
    /\ EndsWithRecompute
    /\ heap[lastOp.node].myState = "FOLDER_CONTENTS_RELOADING"
    /\ \E n \in AliveNodes : heap[n].myState = "ERROR"
    /\ \E n \in AliveNodes : heap[n].myState = "FILE_SPECULATE_IDLE"

\* C2: a node in INIT, DELETING or one of the four SPECULATE states owns no
\* row and no placeholder row, and only nodes made visible own a row.
Unmaterialized ==
    {"INIT", "DELETING", "FILE_SPECULATE_IDLE", "FILE_SPECULATE_LOADING",
     "FOLDER_SPECULATE_IDLE", "FOLDER_SPECULATE_LOADING"}

C2_UnmaterializedOwnNoRows ==
    \A n \in AliveNodes :
        /\ heap[n].myState \in Unmaterialized
              => /\ heap[n].modelItemList = "none"
                 /\ heap[n].decendantPlaceholderItem = "none"
        /\ heap[n].modelItemList # "none" => heap[n].nodeVisible

C2_Witness ==
    /\ \E n \in AliveNodes :
          /\ heap[n].myState = "DELETING"
          /\ heap[n].nodeVisible
          /\ heap[n].myParent # NULL
          /\ heap[heap[n].myParent].decendantPlaceholderItem # "none"
    /\ \E n \in AliveNodes :
          /\ heap[n].myState \in Unmaterialized \ {"INIT", "DELETING"}
          /\ heap[heap[n].myParent].modelItemList = "valid"

\* C3: DELETING is absorbing, and deleteLater is scheduled exactly once, at
\* the transition into DELETING.
C3_DeletingAbsorbing ==
    [][\A n \in NodeIds :
          /\ (heap[n].alive /\ heap'[n].alive /\ heap[n].myState = "DELETING")
                => /\ heap'[n].myState = "DELETING"
                   /\ heap'[n].deleteLater = heap[n].deleteLater
          /\ heap'[n].alive
                => heap'[n].deleteLater = (IF heap'[n].myState = "DELETING" THEN 1 ELSE 0)
      ]_vars

C3_Witness ==
    /\ lastOp.op \in {"setLStask", "setBuffTask"}
    /\ lastOp.arg = "accepted"
    /\ heap[lastOp.node].alive
    /\ heap[lastOp.node].myState = "DELETING"

\* C4: a GOOD, verified listing holding only "." makes the folder's contents
\* known, takes every child out of the child list and into DELETING, and a
\* folder that owns a row shows the placeholder "Empty".
C4_EmptyListing ==
    [][(lastOp'.op = "deliverLSdata" /\ lastOp'.arg = "GOOD_empty" /\ ~crashed')
          => LET n == lastOp'.node
             IN  /\ heap'[n].folderContentsKnown
                 /\ heap'[n].childList = <<>>
                 /\ \A c \in Children(heap, n) :
                       heap'[c].alive /\ heap'[c].myState = "DELETING"
                 /\ (heap'[n].nodeVisible /\ heap'[n].myState # "DELETING")
                       => heap'[n].myState = "FOLDER_CONTENTS_LOADED"
                 /\ heap'[n].modelItemList = "valid"
                       => heap'[n].decendantPlaceholderItem = "Empty"
      ]_vars

C4_Witness ==
    /\ ~crashed
    /\ lastOp.op = "deliverLSdata"
    /\ lastOp.arg = "GOOD_empty"
    /\ heap[lastOp.node].modelItemList = "valid"
    /\ heap[lastOp.node].decendantPlaceholderItem = "Empty"
    /\ \E c \in AliveNodes :
          /\ heap[c].myParent = lastOp.node
          /\ heap[c].myState = "DELETING"
          /\ heap[c].nodeVisible

\* C5: a pending ls task exists only on DIR nodes and a pending buffer task
\* only on FILE nodes; a rejected setLStask or setBuffTask changes nothing.
C5_TasksMatchFileType ==
    [][/\ \A n \in NodeIds :
             heap'[n].alive
                => /\ heap'[n].lsTask # NULL => heap'[n].fileType = "DIR"
                   /\ heap'[n].bufferTask # NULL => heap'[n].fileType = "FILE"
       /\ (lastOp'.op \in {"setLStask", "setBuffTask"} /\ lastOp'.arg = "rejected")
             => heap' = heap /\ ~crashed'
      ]_vars

C5_Witness ==
    /\ lastOp.arg = "rejected"
    /\ \/ lastOp.op = "setLStask" /\ heap[lastOp.node].fileType = "FILE"
       \/ lastOp.op = "setBuffTask" /\ heap[lastOp.node].fileType = "DIR"
    /\ \E n \in AliveNodes : heap[n].lsTask # NULL
    /\ \E n \in AliveNodes : heap[n].bufferTask # NULL

\* C6: isChildOf(p) is true exactly when p is non-null and is the node or one
\* of its ancestors; the parent chain of every node ends at a root.
RECURSIVE Ancestor(_, _)
Ancestor(n, k) ==
    IF k = 0 \/ n = NULL THEN n ELSE Ancestor(heap[n].myParent, k - 1)

AncestorsOrSelf(n) == {Ancestor(n, k) : k \in 0 .. MaxNodes} \ {NULL}

C6_IsChildOf ==
    \A n \in AliveNodes :
        /\ Ancestor(n, MaxNodes) = NULL
        /\ \A p \in AliveNodes \cup {NULL} :
              isChildOf(Now, n, p) <=> (p # NULL /\ p \in AncestorsOrSelf(n))

C6_Witness ==
    \E n, p, q \in AliveNodes :
        /\ heap[n].myParent = p /\ heap[p].myParent = RootNode /\ q # n /\ q # p
        /\ heap[q].myParent = RootNode
        /\ isChildOf(Now, n, RootNode) /\ isChildOf(Now, n, n)
        /\ ~isChildOf(Now, n, q) /\ ~isChildOf(Now, p, n)

\* C7: after each public operation every node that is not DELETING is in the
\* state recomputeNodeState derives from its fields.
C7_StateNeverStale ==
    ~crashed =>
        \A n \in AliveNodes :
            heap[n].myState # "DELETING" => heap[n].myState = NextNodeState(Now, n)

\* C8: a GOOD listing whose "." entry is missing, or resolves by name from
\* the root to no node or to another node, leaves the folder's children and
\* folderContentsKnown alone; the ls task is cleared and the state recomputed.
ControlResolvesTo(h, n, dataList) ==
    LET w == [node |-> h, crashed |-> FALSE, ub |-> "crash"]
    IN  /\ \E i \in 1 .. Len(dataList) : getFileName(dataList[i].path) = "."
        /\ getNodeWithName(w, RootOf(w, n), getControlAddress(dataList)) = n

C8_MismatchLeavesFolder ==
    [][(lastOp'.op = "deliverLSdata" /\ lastOp'.arg \in {"GOOD_mismatch", "GOOD_empty", "GOOD_listed"})
          => LET n == lastOp'.node
             IN  /\ heap'[n].lsTask = NULL
                 /\ ~ControlResolvesTo(heap, n, lastOp'.dataList)
                       => /\ heap'[n].childList = heap[n].childList
                          /\ heap'[n].folderContentsKnown = heap[n].folderContentsKnown
                          /\ \A m \in NodeIds : heap'[m].alive = heap[m].alive
                          /\ (~crashed' /\ heap'[n].myState # "DELETING")
                                => heap'[n].myState = NextNodeState(Then, n)
      ]_vars

C8_Witness ==
    /\ ~crashed
    /\ lastOp.op = "deliverLSdata"
    /\ lastOp.arg = "GOOD_mismatch"
    /\ Len(lastOp.dataList) > 1
    /\ getControlAddress(lastOp.dataList) = heap[lastOp.node].fullPath
    /\ heap[lastOp.node].myParent # NULL
    /\ lastOp.node \notin Children(heap, heap[lastOp.node].myParent)
    /\ heap[lastOp.node].childList # <<>>

\* C9: after a GOOD, verified listing with more than one entry the child list
\* corresponds one-to-one to the entries other than ".", by (path, type):
\* unmatched children are out and DELETING, matched children are kept, every
\* other entry has a new child, no key is shared, every child is visible.
FileKey(h, c) == [path |-> h[c].fullPath, type |-> h[c].fileType]
ListedKeys(dataList) == {e \in Range(dataList) : getFileName(e.path) # "."}

====
